---- MODULE Spec2Model ----
(***************************************************************************)
(* Moderation cog of bolt (bolt/cogs/mod/cog.py): the infraction ledger,   *)
(* the kick/ban dispatcher, the purge commands and the ledger queries.     *)
(*                                                                         *)
(* The infraction table itself (bolt/cogs/mod/models.py) is not part of    *)
(* the sources at hand: the Store* operators model it from the written     *)
(* specification (ids from a sequence, created_on set at insert, edited_on *)
(* null until an update).                                                  *)
(***************************************************************************)
EXTENDS Integers, Sequences, FiniteSets, TLC

VARIABLES
    ledger,       \* the infraction table: a set of rows
    nextId,       \* the table's id sequence
    clock,        \* the store's "now"; every write happens at its own instant
    issued,       \* history: the ids returned by inserts, in order
    lastEdit,     \* history: per id, <<time, reason>> of the latest edit that hit it
    present,      \* platform: <<guild, user>> pairs that are members
    platformLog,  \* history: the kick/ban actions the platform carried out
    channel,      \* platform: the channel's messages, newest first
    inv           \* per invocation slot: the command, its arguments, its position

vars == <<ledger, nextId, clock, issued, lastEdit, present, platformLog, channel, inv>>

storeVars == <<ledger, nextId, clock, issued, lastEdit>>

-----------------------------------------------------------------------------
(* Bounds *)

MaxTime == 3        \* store writes (inserts and hitting edits) per behaviour
MaxMsgs == 3        \* messages in the channel at the start
MaxLimit == 4       \* largest limit/amount argument tried

(* Program constants *)

PurgeDefaultLimit == 100
PurgeIdLimit == 1000

(* Identities and texts *)

Guilds == {"g1", "g2"}
Users == {41, 42}
Moderators == {7}
\* Invocation slots; the sequential specifications run every command in slot "a".
Procs == {"a", "b"}
\* Role positions: the check compares two of them, so three values give every order.
Ranks == 0..2
InsertTexts == {"ducks"}
EditTexts == {"geese", "swans"}
DispatchReasons == {""}
Ids == 1..(MaxTime + 1)
Contents == {<<"x">>, <<"x", "X">>, <<"X", "x">>}
Needles == {<<"x">>, <<"X">>, <<"x", "X">>}

InfractionType == {"note", "warning", "mute", "kick", "ban"}

INFRACTION_TYPE_EMOJI ==
    [t \in InfractionType |->
        CASE t = "note" -> "notebook"
          [] t = "warning" -> "warning_sign"
          [] t = "mute" -> "muted_speaker"
          [] t = "kick" -> "boot"
          [] t = "ban" -> "hammer"]

Min(a, b) == IF a <= b THEN a ELSE b

-----------------------------------------------------------------------------
(* The infraction table *)

\* The id the store gives a new row: the next value of the table's sequence.
StoreNewIdReuse(L, nid) ==
    IF L = {} THEN 1 ELSE (CHOOSE m \in {r.id : r \in L} : \A r \in L : r.id <= m) + 1

StoreNewId(L, nid) == nid

\* insert(): the row the store keeps for the given values.
StoreInsert(vals, id, now) ==
    [id |-> id, type |-> vals.type, guild_id |-> vals.guild_id,
     user_id |-> vals.user_id, moderator_id |-> vals.moderator_id,
     reason |-> vals.reason, created_on |-> now, edited_on |-> <<>>]

\* update(): what the table does to a row an update statement hits.
StoreOnUpdate(r, now) == [r EXCEPT !.edited_on = <<now>>]

\* Invocations in flight that still have a store write ahead of them.
Pending ==
    Cardinality({q \in Procs :
        \/ inv[q].pc \in {"platform", "insert"}
        \/ inv[q].pc = "db" /\ inv[q].cmd \in {"note", "warn"}
        \/ /\ inv[q].pc = "db" /\ inv[q].cmd = "infraction_edit"
           /\ \E r \in ledger : r.id = inv[q].id /\ r.guild_id = inv[q].guild})

CanWrite == clock + Pending < MaxTime

-----------------------------------------------------------------------------
(* Invocation slots *)

Idle ==
    [cmd |-> "none", pc |-> "idle", guild |-> "", actor |-> 0, target |-> 0,
     botRank |-> 0, targetRank |-> 0, actorRank |-> 0, text |-> "", id |-> 0,
     types |-> {}, ids |-> {}, limit |-> 0, needle |-> <<>>,
     resolved |-> {},
     report |-> "none", pk |-> 0, called |-> FALSE, embed |-> <<>>, total |-> 0,
     recent |-> 0, rowcount |-> 0, result |-> <<>>]

Free(p) == inv[p].pc \in {"idle", "done", "raised"}

Call(cmd, g, a) == [Idle EXCEPT !.cmd = cmd, !.pc = "run", !.guild = g, !.actor = a]

Done(c, report) == [c EXCEPT !.pc = "done", !.report = report]

Raised(c) == [c EXCEPT !.pc = "raised"]

-----------------------------------------------------------------------------
(* kick *)

KickDeniedStrict(bot, target) == bot < target

KickDenied(bot, target) == bot <= target

KickValues(c) ==
    [type |-> "kick", guild_id |-> c.guild, user_id |-> c.target,
     moderator_id |-> c.actor, reason |-> c.text]

\* Entry: the hierarchy check; a failing check awaits the send of the denial,
\* a passing one the platform call.
Kick(p, g, a, u, botRank, targetRank, actorRank, reason) ==
    /\ Free(p)
    /\ <<g, u>> \in present
    /\ CanWrite
    /\ LET c == [Call("kick", g, a) EXCEPT !.target = u, !.botRank = botRank,
                     !.targetRank = targetRank, !.actorRank = actorRank,
                     !.text = reason]
       IN  inv' = [inv EXCEPT ![p] =
                      IF KickDenied(botRank, targetRank)
                      THEN [c EXCEPT !.pc = "deny"]
                      ELSE [c EXCEPT !.pc = "platform", !.called = TRUE]]
    /\ UNCHANGED <<storeVars, present, platformLog, channel>>

\* The denial was sent; the command returns.
KickDeny(p) ==
    /\ inv[p].cmd = "kick" /\ inv[p].pc = "deny"
    /\ inv' = [inv EXCEPT ![p] = Done(inv[p], "denied")]
    /\ UNCHANGED <<storeVars, present, platformLog, channel>>

KickPlatform(p) ==
    /\ inv[p].cmd = "kick" /\ inv[p].pc = "platform"
    /\ <<inv[p].guild, inv[p].target>> \in present
    /\ present' = present \ {<<inv[p].guild, inv[p].target>>}
    /\ platformLog' = platformLog \cup
           {[kind |-> "kick", guild |-> inv[p].guild, user |-> inv[p].target]}
    /\ inv' = [inv EXCEPT ![p].pc = "insert"]
    /\ UNCHANGED <<storeVars, channel>>

KickPlatformFailSwallowed(p) ==
    /\ inv[p].cmd = "kick" /\ inv[p].pc = "platform"
    /\ inv' = [inv EXCEPT ![p].pc = "insert"]
    /\ UNCHANGED <<storeVars, present, platformLog, channel>>

\* guild.kick raises (permission revoked, member gone, transport error).
KickPlatformFail(p) ==
    /\ inv[p].cmd = "kick" /\ inv[p].pc = "platform"
    /\ inv' = [inv EXCEPT ![p] = Raised(inv[p])]
    /\ UNCHANGED <<storeVars, present, platformLog, channel>>

KickInsert(p) ==
    /\ inv[p].cmd = "kick" /\ inv[p].pc = "insert"
    /\ LET id == StoreNewId(ledger, nextId)
       IN  /\ ledger' = ledger \cup {StoreInsert(KickValues(inv[p]), id, clock)}
           /\ issued' = Append(issued, id)
           /\ inv' = [inv EXCEPT ![p].pc = "send", ![p].pk = id]
    /\ nextId' = nextId + 1
    /\ clock' = clock + 1
    /\ UNCHANGED <<lastEdit, present, platformLog, channel>>

\* The member comes back when the insert fails.
KickInsertFailCompensated(p) ==
    /\ inv[p].cmd = "kick" /\ inv[p].pc = "insert"
    /\ inv' = [inv EXCEPT ![p] = Raised(inv[p])]
    /\ present' = present \cup {<<inv[p].guild, inv[p].target>>}
    /\ UNCHANGED <<storeVars, platformLog, channel>>

\* db.execute raises (store down, constraint, transport error): the exception
\* leaves the command; nothing after it runs and nothing before it is undone.
KickInsertFail(p) ==
    /\ inv[p].cmd = "kick" /\ inv[p].pc = "insert"
    /\ inv' = [inv EXCEPT ![p] = Raised(inv[p])]
    /\ UNCHANGED <<storeVars, present, platformLog, channel>>

KickSend(p) ==
    /\ inv[p].cmd = "kick" /\ inv[p].pc = "send"
    /\ inv' = [inv EXCEPT ![p] = Done(inv[p], "kicked")]
    /\ UNCHANGED <<storeVars, present, platformLog, channel>>

-----------------------------------------------------------------------------
(* ban *)

BanDeniedStrict(bot, target) == bot < target

BanDenied(bot, target) == bot <= target

BanValues(c) ==
    [type |-> "ban", guild_id |-> c.guild, user_id |-> c.target,
     moderator_id |-> c.actor, reason |-> c.text]

Ban(p, g, a, u, botRank, targetRank, actorRank, reason) ==
    /\ Free(p)
    /\ <<g, u>> \in present
    /\ CanWrite
    /\ LET c == [Call("ban", g, a) EXCEPT !.target = u, !.botRank = botRank,
                     !.targetRank = targetRank, !.actorRank = actorRank,
                     !.text = reason]
       IN  inv' = [inv EXCEPT ![p] =
                      IF BanDenied(botRank, targetRank)
                      THEN [c EXCEPT !.pc = "deny"]
                      ELSE [c EXCEPT !.pc = "platform", !.called = TRUE]]
    /\ UNCHANGED <<storeVars, present, platformLog, channel>>

BanDeny(p) ==
    /\ inv[p].cmd = "ban" /\ inv[p].pc = "deny"
    /\ inv' = [inv EXCEPT ![p] = Done(inv[p], "denied")]
    /\ UNCHANGED <<storeVars, present, platformLog, channel>>

\* The guild the modelled channel belongs to.
ChannelGuild == "g1"

\* delete_message_days=7: with the ban the platform removes the user's
\* messages of the last seven days from the guild's channels. A message has
\* no age here, so any of the user's messages may be among them.
BanDeletes(ch, g, u) ==
    IF g = ChannelGuild
    THEN SUBSET {ch[i].mid : i \in {k \in DOMAIN ch : ch[k].author = u}}
    ELSE {{}}

\* The platform bans by user id, member or not.
BanPlatform(p) ==
    /\ inv[p].cmd = "ban" /\ inv[p].pc = "platform"
    /\ present' = present \ {<<inv[p].guild, inv[p].target>>}
    /\ platformLog' = platformLog \cup
           {[kind |-> "ban", guild |-> inv[p].guild, user |-> inv[p].target]}
    /\ \E gone \in BanDeletes(channel, inv[p].guild, inv[p].target) :
          channel' = SelectSeq(channel, LAMBDA m : m.mid \notin gone)
    /\ inv' = [inv EXCEPT ![p].pc = "insert"]
    /\ UNCHANGED storeVars

BanPlatformFailSwallowed(p) ==
    /\ inv[p].cmd = "ban" /\ inv[p].pc = "platform"
    /\ inv' = [inv EXCEPT ![p].pc = "insert"]
    /\ UNCHANGED <<storeVars, present, platformLog, channel>>

BanPlatformFail(p) ==
    /\ inv[p].cmd = "ban" /\ inv[p].pc = "platform"
    /\ inv' = [inv EXCEPT ![p] = Raised(inv[p])]
    /\ UNCHANGED <<storeVars, present, platformLog, channel>>

BanInsert(p) ==
    /\ inv[p].cmd = "ban" /\ inv[p].pc = "insert"
    /\ LET id == StoreNewId(ledger, nextId)
       IN  /\ ledger' = ledger \cup {StoreInsert(BanValues(inv[p]), id, clock)}
           /\ issued' = Append(issued, id)
           /\ inv' = [inv EXCEPT ![p].pc = "send", ![p].pk = id]
    /\ nextId' = nextId + 1
    /\ clock' = clock + 1
    /\ UNCHANGED <<lastEdit, present, platformLog, channel>>

BanInsertFail(p) ==
    /\ inv[p].cmd = "ban" /\ inv[p].pc = "insert"
    /\ inv' = [inv EXCEPT ![p] = Raised(inv[p])]
    /\ UNCHANGED <<storeVars, present, platformLog, channel>>

BanSend(p) ==
    /\ inv[p].cmd = "ban" /\ inv[p].pc = "send"
    /\ inv' = [inv EXCEPT ![p] = Done(inv[p], "banned")]
    /\ UNCHANGED <<storeVars, present, platformLog, channel>>

-----------------------------------------------------------------------------
(* note, warn *)

NoteValuesSwapped(c) ==
    [type |-> "note", user_id |-> c.actor, guild_id |-> c.guild,
     moderator_id |-> c.target, reason |-> c.text]

NoteValues(c) ==
    [type |-> "note", user_id |-> c.target, guild_id |-> c.guild,
     moderator_id |-> c.actor, reason |-> c.text]

\* Entry: the insert is built and db.execute awaited. The role positions are
\* those of the context; the command reads none of them.
Note(p, g, a, u, botRank, targetRank, actorRank, note) ==
    /\ Free(p)
    /\ CanWrite
    /\ inv' = [inv EXCEPT ![p] =
           [Call("note", g, a) EXCEPT !.pc = "db", !.target = u,
               !.botRank = botRank, !.targetRank = targetRank,
               !.actorRank = actorRank, !.text = note]]
    /\ UNCHANGED <<storeVars, present, platformLog, channel>>

\* db.execute returns: the row is in the table; ctx.send is awaited.
NoteInsert(p) ==
    /\ inv[p].cmd = "note" /\ inv[p].pc = "db"
    /\ LET id == StoreNewId(ledger, nextId)
       IN  /\ ledger' = ledger \cup {StoreInsert(NoteValues(inv[p]), id, clock)}
           /\ issued' = Append(issued, id)
           /\ inv' = [inv EXCEPT ![p].pc = "send", ![p].pk = id]
    /\ nextId' = nextId + 1
    /\ clock' = clock + 1
    /\ UNCHANGED <<lastEdit, present, platformLog, channel>>

NoteSend(p) ==
    /\ inv[p].cmd = "note" /\ inv[p].pc = "send"
    /\ inv' = [inv EXCEPT ![p] = Done(inv[p], "noted")]
    /\ UNCHANGED <<storeVars, present, platformLog, channel>>

WarnValues(c) ==
    [type |-> "warning", guild_id |-> c.guild, user_id |-> c.target,
     moderator_id |-> c.actor, reason |-> c.text]

Warn(p, g, a, u, botRank, targetRank, actorRank, reason) ==
    /\ Free(p)
    /\ CanWrite
    /\ inv' = [inv EXCEPT ![p] =
           [Call("warn", g, a) EXCEPT !.pc = "db", !.target = u,
               !.botRank = botRank, !.targetRank = targetRank,
               !.actorRank = actorRank, !.text = reason]]
    /\ UNCHANGED <<storeVars, present, platformLog, channel>>

WarnInsert(p) ==
    /\ inv[p].cmd = "warn" /\ inv[p].pc = "db"
    /\ LET id == StoreNewId(ledger, nextId)
       IN  /\ ledger' = ledger \cup {StoreInsert(WarnValues(inv[p]), id, clock)}
           /\ issued' = Append(issued, id)
           /\ inv' = [inv EXCEPT ![p].pc = "send", ![p].pk = id]
    /\ nextId' = nextId + 1
    /\ clock' = clock + 1
    /\ UNCHANGED <<lastEdit, present, platformLog, channel>>

WarnSend(p) ==
    /\ inv[p].cmd = "warn" /\ inv[p].pc = "send"
    /\ inv' = [inv EXCEPT ![p] = Done(inv[p], "warned")]
    /\ UNCHANGED <<storeVars, present, platformLog, channel>>

-----------------------------------------------------------------------------
(* infraction edit, infraction delete *)

EditWhereGuildOnly(r, id_, g) == r.guild_id = g

EditWhereAnyGuild(r, id_, g) == r.id = id_

EditWhere(r, id_, g) == r.id = id_ /\ r.guild_id = g

EditValuesKeep(r, new_reason) == r

EditValues(r, new_reason) == [r EXCEPT !.reason = new_reason]

\* Entry: the update is built and db.execute awaited.
InfractionEdit(p, g, a, id_, new_reason) ==
    /\ Free(p)
    /\ (\E r \in ledger : EditWhere(r, id_, g)) => CanWrite
    /\ inv' = [inv EXCEPT ![p] =
           [Call("infraction_edit", g, a) EXCEPT
               !.pc = "db", !.id = id_, !.text = new_reason]]
    /\ UNCHANGED <<storeVars, present, platformLog, channel>>

\* db.execute returns: the rows the statement hit are updated.
InfractionEditExecute(p) ==
    /\ inv[p].cmd = "infraction_edit" /\ inv[p].pc = "db"
    /\ LET c == inv[p]
           hit == {r \in ledger : EditWhere(r, c.id, c.guild)}
           rowcount == Cardinality(hit)
       IN  /\ hit # {} => clock < MaxTime
           /\ ledger' = (ledger \ hit) \cup
                  {StoreOnUpdate(EditValues(r, c.text), clock) : r \in hit}
           /\ clock' = IF hit = {} THEN clock ELSE clock + 1
           /\ lastEdit' = IF rowcount = 0 THEN lastEdit
                          ELSE [lastEdit EXCEPT ![c.id] = <<clock, c.text>>]
           /\ inv' = [inv EXCEPT ![p].pc = "send", ![p].rowcount = rowcount]
    /\ UNCHANGED <<nextId, issued, present, platformLog, channel>>

InfractionEditSend(p) ==
    /\ inv[p].cmd = "infraction_edit" /\ inv[p].pc = "send"
    /\ inv' = [inv EXCEPT ![p] =
           [Done(inv[p], IF inv[p].rowcount = 0 THEN "edit_notfound" ELSE "edited")
               EXCEPT !.total = inv[p].rowcount]]
    /\ UNCHANGED <<storeVars, present, platformLog, channel>>

DeleteWhereGuildOnly(r, id_, g) == r.guild_id = g

DeleteWhereAnyGuild(r, id_, g) == r.id = id_

DeleteWhere(r, id_, g) == r.id = id_ /\ r.guild_id = g

InfractionDelete(p, g, a, id_) ==
    /\ Free(p)
    /\ inv' = [inv EXCEPT ![p] =
           [Call("infraction_delete", g, a) EXCEPT !.pc = "db", !.id = id_]]
    /\ UNCHANGED <<storeVars, present, platformLog, channel>>

InfractionDeleteExecute(p) ==
    /\ inv[p].cmd = "infraction_delete" /\ inv[p].pc = "db"
    /\ LET hit == {r \in ledger : DeleteWhere(r, inv[p].id, inv[p].guild)}
       IN  /\ ledger' = ledger \ hit
           /\ inv' = [inv EXCEPT ![p].pc = "send", ![p].rowcount = Cardinality(hit)]
    /\ UNCHANGED <<nextId, clock, issued, lastEdit, present, platformLog, channel>>

InfractionDeleteSend(p) ==
    /\ inv[p].cmd = "infraction_delete" /\ inv[p].pc = "send"
    /\ inv' = [inv EXCEPT ![p] =
           [Done(inv[p], IF inv[p].rowcount = 0 THEN "delete_notfound" ELSE "deleted")
               EXCEPT !.total = inv[p].rowcount]]
    /\ UNCHANGED <<storeVars, present, platformLog, channel>>

-----------------------------------------------------------------------------
(* infraction detail *)

DetailWhere(r, id_, g) == r.id = id_ /\ r.guild_id = g

\* The 'User' field: the resolved user, else the bare stored id.
DetailUser(r, resolved) ==
    IF r.user_id \in resolved
    THEN [label |-> "user", name |-> r.user_id, id |-> r.user_id]
    ELSE [label |-> "", name |-> 0, id |-> r.user_id]

\* The footer: the resolved moderator, else 'unknown user' and the stored id.
DetailFooter(r, resolved) ==
    IF r.moderator_id \in resolved
    THEN [label |-> "user", name |-> r.moderator_id, id |-> r.moderator_id]
    ELSE [label |-> "unknown user", name |-> 0, id |-> r.moderator_id]

DetailEmbed(r, resolved) ==
    [id |-> r.id, user |-> DetailUser(r, resolved),
     emoji |-> INFRACTION_TYPE_EMOJI[r.type], type |-> r.type,
     created |-> r.created_on,
     edited |-> IF r.edited_on = <<>> THEN "never" ELSE "set",
     edited_on |-> r.edited_on, reason |-> r.reason,
     footer |-> DetailFooter(r, resolved)]

\* Entry: the select is built and db.execute awaited. `resolved` is what
\* bot.get_user resolves while the embed is built.
InfractionDetail(p, g, a, id_, resolved) ==
    /\ Free(p)
    /\ inv' = [inv EXCEPT ![p] =
           [Call("infraction_detail", g, a) EXCEPT
               !.pc = "db", !.id = id_, !.resolved = resolved]]
    /\ UNCHANGED <<storeVars, present, platformLog, channel>>

\* db.execute returns the rows the select found; result.first() is awaited.
InfractionDetailExecute(p) ==
    /\ inv[p].cmd = "infraction_detail" /\ inv[p].pc = "db"
    /\ LET hit == {r \in ledger : DetailWhere(r, inv[p].id, inv[p].guild)}
       IN  inv' = [inv EXCEPT ![p].pc = "fetch",
                              ![p].result = IF hit = {} THEN <<>>
                                            ELSE <<CHOOSE r \in hit : TRUE>>]
    /\ UNCHANGED <<storeVars, present, platformLog, channel>>

\* result.first() returns: None, or the row the embed is built from; ctx.send
\* is awaited.
InfractionDetailFirst(p) ==
    /\ inv[p].cmd = "infraction_detail" /\ inv[p].pc = "fetch"
    /\ inv' = [inv EXCEPT ![p].pc = "send",
                          ![p].embed = IF inv[p].result = <<>> THEN <<>>
                                       ELSE <<DetailEmbed(inv[p].result[1],
                                                          inv[p].resolved)>>]
    /\ UNCHANGED <<storeVars, present, platformLog, channel>>

InfractionDetailSend(p) ==
    /\ inv[p].cmd = "infraction_detail" /\ inv[p].pc = "send"
    /\ inv' = [inv EXCEPT ![p] =
           Done(inv[p], IF inv[p].embed = <<>> THEN "detail_notfound" ELSE "detail")]
    /\ UNCHANGED <<storeVars, present, platformLog, channel>>

-----------------------------------------------------------------------------
(* infraction list *)

ListWhereAnyGuild(r, g, types) == types = {} \/ r.type \in types

ListWhere(r, g, types) == r.guild_id = g /\ (types = {} \/ r.type \in types)

\* order_by(created_on): every arrangement of the rows with created_on ascending.
OrderByCreatedOn(rows) ==
    {s \in [1..Cardinality(rows) -> rows] :
        /\ \A i, j \in DOMAIN s : i < j => s[i] # s[j]
        /\ \A i, j \in DOMAIN s : i < j => s[i].created_on <= s[j].created_on}

\* The user string of one line; with get_user returning None the else branch
\* reads user.id of None, which raises AttributeError.
ListUserString(r, resolved) ==
    IF r.user_id \in resolved
    THEN [label |-> "user", name |-> r.user_id, id |-> r.user_id]
    ELSE [label |-> "AttributeError", name |-> 0, id |-> 0]

ListLine(r, resolved) ==
    [id |-> r.id, emoji |-> INFRACTION_TYPE_EMOJI[r.type],
     user |-> ListUserString(r, resolved), created |-> r.created_on]

ListRaises(lines) == \E i \in DOMAIN lines : lines[i].user.label = "AttributeError"

InfractionList(p, g, a, types, resolved) ==
    /\ Free(p)
    /\ inv' = [inv EXCEPT ![p] =
           [Call("infraction_list", g, a) EXCEPT
               !.pc = "db", !.types = types, !.resolved = resolved]]
    /\ UNCHANGED <<storeVars, present, platformLog, channel>>

\* db.execute returns the rows in order; result.fetchall() is awaited.
InfractionListExecute(p) ==
    /\ inv[p].cmd = "infraction_list" /\ inv[p].pc = "db"
    /\ \E rows \in OrderByCreatedOn(
              {r \in ledger : ListWhere(r, inv[p].guild, inv[p].types)}) :
          inv' = [inv EXCEPT ![p].pc = "fetch", ![p].result = rows]
    /\ UNCHANGED <<storeVars, present, platformLog, channel>>

\* result.fetchall() returns and the lines are built: the loop raises, or
\* ctx.send is awaited.
InfractionListFetchall(p) ==
    /\ inv[p].cmd = "infraction_list" /\ inv[p].pc = "fetch"
    /\ LET rows == inv[p].result
           lines == [i \in DOMAIN rows |-> ListLine(rows[i], inv[p].resolved)]
       IN  inv' = [inv EXCEPT ![p] =
               IF ListRaises(lines)
               THEN Raised(inv[p])
               ELSE [inv[p] EXCEPT !.pc = "send", !.embed = lines]]
    /\ UNCHANGED <<storeVars, present, platformLog, channel>>

InfractionListSend(p) ==
    /\ inv[p].cmd = "infraction_list" /\ inv[p].pc = "send"
    /\ inv' = [inv EXCEPT ![p] =
           Done(inv[p], IF inv[p].embed = <<>> THEN "list_empty" ELSE "list")]
    /\ UNCHANGED <<storeVars, present, platformLog, channel>>

-----------------------------------------------------------------------------
(* infraction user *)

UserWhere(r, g, u) == r.guild_id = g /\ r.user_id = u

\* The place of a type in the order the store sorts the type column by.
TypeRank ==
    [t \in InfractionType |->
        CASE t = "note" -> 1
          [] t = "warning" -> 2
          [] t = "mute" -> 3
          [] t = "kick" -> 4
          [] t = "ban" -> 5]

\* Every arrangement of the rows, sorted or not.
OrderByTypeNot(rows) ==
    {s \in [1..Cardinality(rows) -> rows] :
        \A i, j \in DOMAIN s : i < j => s[i] # s[j]}

\* order_by(type): every arrangement of the rows with the type ascending.
OrderByType(rows) ==
    {s \in [1..Cardinality(rows) -> rows] :
        /\ \A i, j \in DOMAIN s : i < j => s[i] # s[j]
        /\ \A i, j \in DOMAIN s : i < j => TypeRank[s[i].type] <= TypeRank[s[j].type]}

\* max(rows, key=created_on): the first row that no other row is newer than.
MostRecent(rows) ==
    rows[CHOOSE i \in DOMAIN rows :
            /\ \A j \in DOMAIN rows : rows[j].created_on <= rows[i].created_on
            /\ \A j \in DOMAIN rows : j < i => rows[j].created_on < rows[i].created_on]

\* The length of the run of rows at the head that share the first row's type.
RunLength(rows) ==
    CHOOSE n \in 1..Len(rows) :
        /\ \A i \in 1..n : rows[i].type = rows[1].type
        /\ n < Len(rows) => rows[n + 1].type # rows[1].type

UserEntry(r) == [id |-> r.id, created |-> r.created_on]

\* itertools.groupby(rows, key=type): one field per run of equal types.
RECURSIVE GroupByType(_)
GroupByType(rows) ==
    IF rows = <<>> THEN <<>>
    ELSE LET n == RunLength(rows)
         IN  <<[type |-> rows[1].type, emoji |-> INFRACTION_TYPE_EMOJI[rows[1].type],
                entries |-> [i \in 1..n |-> UserEntry(rows[i])]]>>
             \o GroupByType(SubSeq(rows, n + 1, Len(rows)))

InfractionUser(p, g, a, u) ==
    /\ Free(p)
    /\ inv' = [inv EXCEPT ![p] =
           [Call("infraction_user", g, a) EXCEPT !.pc = "db", !.target = u]]
    /\ UNCHANGED <<storeVars, present, platformLog, channel>>

InfractionUserExecute(p) ==
    /\ inv[p].cmd = "infraction_user" /\ inv[p].pc = "db"
    /\ \E rows \in OrderByType(
              {r \in ledger : UserWhere(r, inv[p].guild, inv[p].target)}) :
          inv' = [inv EXCEPT ![p].pc = "fetch", ![p].result = rows]
    /\ UNCHANGED <<storeVars, present, platformLog, channel>>

\* result.fetchall() returns: with no rows the 'no recorded infractions'
\* embed is sent, else the summary and one field per run of equal types.
InfractionUserFetchall(p) ==
    /\ inv[p].cmd = "infraction_user" /\ inv[p].pc = "fetch"
    /\ LET rows == inv[p].result
       IN  inv' = [inv EXCEPT ![p] =
               IF rows = <<>>
               THEN [inv[p] EXCEPT !.pc = "send"]
               ELSE [inv[p] EXCEPT !.pc = "send",
                                   !.rowcount = Len(rows),
                                   !.recent = MostRecent(rows).id,
                                   !.embed = GroupByType(rows)]]
    /\ UNCHANGED <<storeVars, present, platformLog, channel>>

InfractionUserSend(p) ==
    /\ inv[p].cmd = "infraction_user" /\ inv[p].pc = "send"
    /\ inv' = [inv EXCEPT ![p] =
           [Done(inv[p], IF inv[p].result = <<>> THEN "user_empty" ELSE "user")
               EXCEPT !.total = inv[p].rowcount]]
    /\ UNCHANGED <<storeVars, present, platformLog, channel>>

-----------------------------------------------------------------------------
(* purge *)

HistoryWhole(ch, limit) == ch

\* channel.purge(limit, check) looks at the newest `limit` messages ...
History(ch, limit) == SubSeq(ch, 1, Min(limit, Len(ch)))

\* ... and deletes those that pass the check: the channel once they are gone.
Remaining(ch, deleted) ==
    SelectSeq(ch, LAMBDA m : \A i \in DOMAIN deleted : deleted[i].mid # m.mid)

\* Entry: channel.purge is called and awaited.
Purge(p, g, a, limit) ==
    /\ Free(p)
    /\ inv' = [inv EXCEPT ![p] =
           [Call("purge", g, a) EXCEPT !.pc = "purge", !.limit = limit,
                                       !.called = TRUE]]
    /\ UNCHANGED <<storeVars, present, platformLog, channel>>

\* channel.purge returns the messages it deleted; ctx.send is awaited.
PurgeRun(p) ==
    /\ inv[p].cmd = "purge" /\ inv[p].pc = "purge"
    /\ LET deleted == SelectSeq(History(channel, inv[p].limit), LAMBDA m : TRUE)
       IN  /\ channel' = Remaining(channel, deleted)
           /\ inv' = [inv EXCEPT ![p].pc = "send", ![p].rowcount = Len(deleted)]
    /\ UNCHANGED <<storeVars, present, platformLog>>

PurgeSend(p) ==
    /\ inv[p].cmd = "purge" /\ inv[p].pc = "send"
    /\ inv' = [inv EXCEPT ![p] =
           [Done(inv[p], "purged") EXCEPT !.total = inv[p].rowcount]]
    /\ UNCHANGED <<storeVars, present, platformLog, channel>>

PurgeIdEmptyNever(ids_to_purge) == FALSE

PurgeIdEmpty(ids_to_purge) == ids_to_purge = {}

\* Entry: without ids the usage error is sent and the command returns; else
\* channel.purge is called and awaited.
PurgeId(p, g, a, ids_to_purge) ==
    /\ Free(p)
    /\ LET c == [Call("purge_id", g, a) EXCEPT !.ids = ids_to_purge]
       IN  inv' = [inv EXCEPT ![p] =
               IF PurgeIdEmpty(ids_to_purge)
               THEN [c EXCEPT !.pc = "usage"]
               ELSE [c EXCEPT !.pc = "purge", !.called = TRUE,
                              !.limit = PurgeIdLimit]]
    /\ UNCHANGED <<storeVars, present, platformLog, channel>>

\* The usage error was sent; the command returns.
PurgeIdUsage(p) ==
    /\ inv[p].cmd = "purge_id" /\ inv[p].pc = "usage"
    /\ inv' = [inv EXCEPT ![p] = Done(inv[p], "usage")]
    /\ UNCHANGED <<storeVars, present, platformLog, channel>>

PurgeIdRun(p) ==
    /\ inv[p].cmd = "purge_id" /\ inv[p].pc = "purge"
    /\ LET deleted == SelectSeq(History(channel, PurgeIdLimit),
                                LAMBDA m : m.author \in inv[p].ids)
       IN  /\ channel' = Remaining(channel, deleted)
           /\ inv' = [inv EXCEPT ![p].pc = "send", ![p].rowcount = Len(deleted)]
    /\ UNCHANGED <<storeVars, present, platformLog>>

PurgeIdSend(p) ==
    /\ inv[p].cmd = "purge_id" /\ inv[p].pc = "send"
    /\ inv' = [inv EXCEPT ![p] =
           [Done(inv[p], "purged") EXCEPT !.total = inv[p].rowcount]]
    /\ UNCHANGED <<storeVars, present, platformLog, channel>>

Lower(s) == [i \in DOMAIN s |-> IF s[i] = "X" THEN "x" ELSE s[i]]

\* Whether `sub` occurs in `s` as a run of consecutive characters.
Occurs(sub, s) ==
    \E i \in 1..(Len(s) - Len(sub) + 1) : SubSeq(s, i, i + Len(sub) - 1) = sub

ContainsAnyCase(sub, s) == Occurs(Lower(sub), Lower(s))

\* message_contents in m.content
Contains(sub, s) == Occurs(sub, s)

PurgeContaining(p, g, a, amount, message_contents) ==
    /\ Free(p)
    /\ inv' = [inv EXCEPT ![p] =
           [Call("purge_containing", g, a) EXCEPT
               !.pc = "purge", !.limit = amount, !.needle = message_contents,
               !.called = TRUE]]
    /\ UNCHANGED <<storeVars, present, platformLog, channel>>

PurgeContainingRun(p) ==
    /\ inv[p].cmd = "purge_containing" /\ inv[p].pc = "purge"
    /\ LET deleted == SelectSeq(History(channel, inv[p].limit),
                                LAMBDA m : Contains(inv[p].needle, m.content))
       IN  /\ channel' = Remaining(channel, deleted)
           /\ inv' = [inv EXCEPT ![p].pc = "send", ![p].rowcount = Len(deleted)]
    /\ UNCHANGED <<storeVars, present, platformLog>>

PurgeContainingSend(p) ==
    /\ inv[p].cmd = "purge_containing" /\ inv[p].pc = "send"
    /\ inv' = [inv EXCEPT ![p] =
           [Done(inv[p], "purged") EXCEPT !.total = inv[p].rowcount]]
    /\ UNCHANGED <<storeVars, present, platformLog, channel>>

PurgeUserEmptyNever(to_purge) == FALSE

PurgeUserEmpty(to_purge) == to_purge = {}

\* Entry: every argument converts to a member of the guild (to_purge is
\* *discord.Member), else the body is not entered.
PurgeUser(p, g, a, amount, to_purge) ==
    /\ Free(p)
    /\ \A u \in to_purge : <<g, u>> \in present
    /\ LET c == [Call("purge_user", g, a) EXCEPT !.limit = amount, !.ids = to_purge]
       IN  inv' = [inv EXCEPT ![p] =
               IF PurgeUserEmpty(to_purge)
               THEN [c EXCEPT !.pc = "usage"]
               ELSE [c EXCEPT !.pc = "purge", !.called = TRUE]]
    /\ UNCHANGED <<storeVars, present, platformLog, channel>>

PurgeUserUsage(p) ==
    /\ inv[p].cmd = "purge_user" /\ inv[p].pc = "usage"
    /\ inv' = [inv EXCEPT ![p] = Done(inv[p], "usage")]
    /\ UNCHANGED <<storeVars, present, platformLog, channel>>

PurgeUserRun(p) ==
    /\ inv[p].cmd = "purge_user" /\ inv[p].pc = "purge"
    /\ LET deleted == SelectSeq(History(channel, inv[p].limit),
                                LAMBDA m : m.author \in inv[p].ids)
       IN  /\ channel' = Remaining(channel, deleted)
           /\ inv' = [inv EXCEPT ![p].pc = "send", ![p].rowcount = Len(deleted)]
    /\ UNCHANGED <<storeVars, present, platformLog>>

PurgeUserSend(p) ==
    /\ inv[p].cmd = "purge_user" /\ inv[p].pc = "send"
    /\ inv' = [inv EXCEPT ![p] =
           [Done(inv[p], "purged") EXCEPT !.total = inv[p].rowcount]]
    /\ UNCHANGED <<storeVars, present, platformLog, channel>>

-----------------------------------------------------------------------------
(* The permission checks in front of the commands *)

Permissions ==
    {"administrator", "manage_messages", "kick_members", "ban_members",
     "read_message_history"}

\* The callers and the permissions their roles grant them in the guilds:
\* 7 is an administrator, 8 may manage messages, 9 holds nothing.
Callers == {7, 8, 9}

Granted ==
    [a \in Callers |->
        CASE a = 7 -> {"administrator"}
          [] a = 8 -> {"manage_messages"}
          [] a = 9 -> {}]

\* channel.permissions_for(author): an administrator holds every permission.
PermissionsFor(a) ==
    IF "administrator" \in Granted[a] THEN Permissions ELSE Granted[a]

Commands ==
    {"kick", "ban", "purge", "purge_id", "purge_containing", "purge_user",
     "note", "warn", "infraction_edit", "infraction_delete", "infraction_detail",
     "infraction_list", "infraction_user"}

\* The infraction group's own check, run before any of its subcommands.
GroupRequires(cmd) ==
    IF cmd \in {"infraction_edit", "infraction_delete", "infraction_detail",
                "infraction_list", "infraction_user"}
    THEN {"manage_messages"} ELSE {}

RequiresNoAdministrator(cmd) ==
    CASE cmd = "kick" -> {"kick_members"}
      [] cmd = "ban" -> {"ban_members"}
      [] OTHER -> {"manage_messages"}

\* has_permissions(...) of each command.
Requires(cmd) ==
    CASE cmd = "kick" -> {"kick_members"}
      [] cmd = "ban" -> {"ban_members"}
      [] cmd \in {"infraction_edit", "infraction_delete"} -> {"administrator"}
      [] OTHER -> {"manage_messages"}

\* The checks pass: the caller holds what the group and the command require.
Permitted(cmd, a) ==
    (GroupRequires(cmd) \cup Requires(cmd)) \subseteq PermissionsFor(a)

\* A check fails: the framework raises and the command's body never runs.
CheckFailure(p, cmd, g, a) ==
    /\ Free(p)
    /\ ~Permitted(cmd, a)
    /\ inv' = [inv EXCEPT ![p] = Raised(Call(cmd, g, a))]
    /\ UNCHANGED <<storeVars, present, platformLog, channel>>

-----------------------------------------------------------------------------
(* Initial state *)

Init ==
    /\ ledger = {}
    /\ nextId = 1
    /\ clock = 0
    /\ issued = <<>>
    /\ lastEdit = [i \in Ids |-> <<>>]
    /\ present = Guilds \X Users
    /\ platformLog = {}
    /\ channel = <<>>
    /\ inv = [p \in Procs |-> Idle]

\* The kick and ban commands and the steps of their invocations.
\* `ranks` holds <<bot, target, actor>> role positions.
Dispatch(p, users, ranks) ==
    \/ \E g \in Guilds, a \in Moderators, u \in users, reason \in DispatchReasons,
          rk \in ranks :
          \/ Kick(p, g, a, u, rk[1], rk[2], rk[3], reason)
          \/ Ban(p, g, a, u, rk[1], rk[2], rk[3], reason)
    \/ KickDeny(p)
    \/ BanDeny(p)
    \/ KickPlatform(p)
    \/ KickPlatformFail(p)
    \/ KickInsert(p)
    \/ KickSend(p)
    \/ BanPlatform(p)
    \/ BanPlatformFail(p)
    \/ BanInsert(p)
    \/ BanSend(p)

\* The note and warn commands; `ranks` holds <<bot, target, actor>> role positions.
Insert(p, users, ranks) ==
    \/ \E g \in Guilds, a \in Moderators, u \in users, t \in InsertTexts, rk \in ranks :
          \/ Note(p, g, a, u, rk[1], rk[2], rk[3], t)
          \/ Warn(p, g, a, u, rk[1], rk[2], rk[3], t)
    \/ NoteInsert(p)
    \/ NoteSend(p)
    \/ WarnInsert(p)
    \/ WarnSend(p)

\* The ledger: note, warn, infraction edit/delete/detail, in two guilds.
Next ==
    \/ Insert("a", {41}, {<<0, 0, 0>>})
    \/ \E g \in Guilds, a \in Moderators, id_ \in Ids, t \in EditTexts :
          InfractionEdit("a", g, a, id_, t)
    \/ \E g \in Guilds, a \in Moderators, id_ \in Ids :
          InfractionDelete("a", g, a, id_)
    \/ \E g \in Guilds, a \in Moderators, id_ \in Ids :
          InfractionDetail("a", g, a, id_, Users \cup Moderators)
    \/ InfractionEditExecute("a")
    \/ InfractionEditSend("a")
    \/ InfractionDeleteExecute("a")
    \/ InfractionDeleteSend("a")
    \/ InfractionDetailExecute("a")
    \/ InfractionDetailFirst("a")
    \/ InfractionDetailSend("a")

Spec == Init /\ [][Next]_vars

\* The dispatcher alone: kick and ban.
NextDispatch == Dispatch("a", Users, Ranks \X Ranks \X Ranks)

SpecDispatch == Init /\ [][NextDispatch]_vars

\* Channel histories, newest first; a message's mid is its place at the start.
Channels ==
    UNION {{[i \in 1..n |-> [mid |-> i, author |-> f[i][1], content |-> f[i][2]]] :
               f \in [1..n -> Users \X Contents]} : n \in 0..MaxMsgs}

InitPurge ==
    /\ ledger = {}
    /\ nextId = 1
    /\ clock = 0
    /\ issued = <<>>
    /\ lastEdit = [i \in Ids |-> <<>>]
    /\ present = Guilds \X Users
    /\ platformLog = {}
    /\ channel \in Channels
    /\ inv = [p \in Procs |-> Idle]

\* The four purge commands on one channel.
NextPurge ==
    \/ \E a \in Moderators, limit \in (0..MaxLimit) \cup {PurgeDefaultLimit} :
          Purge("a", "g1", a, limit)
    \/ \E a \in Moderators, ids \in SUBSET Users :
          PurgeId("a", "g1", a, ids)
    \/ \E a \in Moderators, amount \in 0..MaxLimit, needle \in Needles :
          PurgeContaining("a", "g1", a, amount, needle)
    \/ \E a \in Moderators, amount \in 0..MaxLimit, members \in SUBSET Users :
          PurgeUser("a", "g1", a, amount, members)
    \/ PurgeRun("a")
    \/ PurgeSend("a")
    \/ PurgeIdUsage("a")
    \/ PurgeIdRun("a")
    \/ PurgeIdSend("a")
    \/ PurgeContainingRun("a")
    \/ PurgeContainingSend("a")
    \/ PurgeUserUsage("a")
    \/ PurgeUserRun("a")
    \/ PurgeUserSend("a")

SpecPurge == InitPurge /\ [][NextPurge]_vars

-----------------------------------------------------------------------------
(* The dispatcher: hierarchy check, platform action, ledger insert *)

IsDispatch(c) == c.cmd \in {"kick", "ban"}

PlatformDid(c) ==
    [kind |-> c.cmd, guild |-> c.guild, user |-> c.target] \in platformLog

\* C1: a kick or ban whose bot role position is lower than or equal to the
\* target's sends the denial message and ends with it; it never starts the
\* platform action, and each of its steps leaves the platform and the ledger
\* as they were.
C1_DeniedNoSideEffect ==
    [][\A p \in Procs :
          (inv'[p] # inv[p] /\ IsDispatch(inv'[p])
              /\ inv'[p].botRank <= inv'[p].targetRank)
          => /\ \/ /\ Free(p) /\ inv'[p].pc = "deny"
                   /\ inv'[p].report = "none"
                \/ /\ inv[p].pc = "deny" /\ inv'[p].pc = "done"
                   /\ inv'[p].report = "denied"
             /\ ~inv'[p].called
             /\ inv'[p].pk = 0
             /\ present' = present
             /\ platformLog' = platformLog
             /\ ledger' = ledger]_vars

C1_Witness ==
    /\ inv["a"].cmd = "kick"
    /\ inv["a"].botRank = inv["a"].targetRank
    /\ inv["a"].report = "denied"
    /\ ledger # {}

\* C2 as stated: a finished kick or ban against a target whose role position
\* is greater than or equal to the invoking moderator's was denied and
\* inserted no row.
C2_ActorRankDenies ==
    \A p \in Procs :
        (IsDispatch(inv[p]) /\ inv[p].pc = "done"
            /\ inv[p].targetRank >= inv[p].actorRank)
        => (inv[p].report = "denied" /\ inv[p].pk = 0)

\* C2, amended: a kick or ban against a target whose role position is greater
\* than or equal to the bot's is denied and the ledger's row count stays the
\* same at each of its steps, whatever the invoking moderator's own position
\* is.
C2_BotRankDenies ==
    [][\A p \in Procs :
          (inv'[p] # inv[p] /\ IsDispatch(inv'[p])
              /\ inv'[p].targetRank >= inv'[p].botRank
              /\ inv'[p].actorRank \in Ranks)
          => /\ inv'[p].pc \in {"deny", "done"}
             /\ inv'[p].pc = "done" => inv'[p].report = "denied"
             /\ inv[p].pc = "deny" => inv'[p].pc = "done"
             /\ Cardinality(ledger') = Cardinality(ledger)]_vars

C2_Witness ==
    /\ inv["a"].cmd = "ban"
    /\ inv["a"].report = "denied"
    /\ inv["a"].actorRank > inv["a"].targetRank
    /\ inv["a"].targetRank >= inv["a"].botRank
    /\ ledger # {}

\* C3: a kick/ban invocation that holds an inserted id had its platform action
\* carried out first; one that ended in an exception holds none; every
\* kick/ban row has a platform action of its kind for its guild and user; and
\* a step that changes the ledger while a kick/ban is in flight is the insert
\* step of an invocation whose platform action was carried out.
C3_InsertAfterPlatform ==
    /\ [](/\ \A r \in ledger :
               r.type \in {"kick", "ban"}
               => [kind |-> r.type, guild |-> r.guild_id, user |-> r.user_id]
                      \in platformLog
          /\ \A p \in Procs :
               IsDispatch(inv[p])
               => /\ inv[p].pk # 0 => PlatformDid(inv[p])
                  /\ inv[p].pc = "raised" => inv[p].pk = 0)
    /\ [][\A p \in Procs :
             (IsDispatch(inv[p]) /\ inv[p].pc = "platform" /\ inv'[p] # inv[p]
                 /\ platformLog' = platformLog)
             => (ledger' = ledger /\ inv'[p].pc = "raised" /\ inv'[p].pk = 0)]_vars

C3_Witness ==
    /\ inv["a"].cmd = "kick"
    /\ inv["a"].pc = "raised"
    /\ inv["a"].called
    /\ \E r \in ledger : r.type = "ban"

-----------------------------------------------------------------------------
(* The ledger: edit and delete *)

IsEditOrDelete(c) == c.cmd \in {"infraction_edit", "infraction_delete"}

\* C4: an infraction edit or delete whose id names no row of the caller's
\* guild (a row of another guild, or no row) leaves the ledger as it was when
\* its statement executes and affects zero rows; an invocation that affected
\* zero rows reports not-found; and no step of an edit or delete changes or
\* removes a row of a guild other than the caller's.
C4_GuildScoped ==
    [][\A p \in Procs :
          (inv'[p] # inv[p] /\ IsEditOrDelete(inv'[p]))
          => /\ (/\ inv[p].pc = "db" /\ inv'[p].pc = "send"
                 /\ ~\E r \in ledger : r.id = inv[p].id /\ r.guild_id = inv[p].guild)
                => /\ inv'[p].rowcount = 0
                   /\ ledger' = ledger
             /\ (inv[p].pc = "send" /\ inv[p].rowcount = 0)
                => /\ inv'[p].pc = "done"
                   /\ inv'[p].report \in {"edit_notfound", "delete_notfound"}
                   /\ inv'[p].total = 0
                   /\ ledger' = ledger
             /\ inv'[p].pc = "db" => ledger' = ledger
             /\ \A r \in ledger : r.guild_id # inv'[p].guild => r \in ledger']_vars

C4_Witness ==
    /\ inv["a"].cmd = "infraction_edit"
    /\ inv["a"].report = "edit_notfound"
    /\ \E r \in ledger : r.id = inv["a"].id /\ r.guild_id # inv["a"].guild

\* C5: after an edit that reported success the row with that id in the
\* caller's guild carries the new text and the time of the edit; and a row's
\* edited_on is null exactly when no edit has hit its id, and otherwise it and
\* the reason are those of the latest edit that did.
C5_EditedOn ==
    /\ \A p \in Procs :
          (inv[p].cmd = "infraction_edit" /\ inv[p].report = "edited")
          => \E r \in ledger :
                /\ r.id = inv[p].id /\ r.guild_id = inv[p].guild
                /\ r.reason = inv[p].text
                /\ r.edited_on = <<clock - 1>>
    /\ \A r \in ledger :
          /\ r.edited_on = <<>> <=> lastEdit[r.id] = <<>>
          /\ lastEdit[r.id] # <<>>
             => /\ r.edited_on = <<lastEdit[r.id][1]>>
                /\ r.reason = lastEdit[r.id][2]

C5_Witness ==
    \E r \in ledger :
        /\ r.reason = "swans"
        /\ r.edited_on = <<2>>
        /\ r.created_on = 0
        /\ inv["a"].cmd = "infraction_edit"
        /\ inv["a"].id = r.id

-----------------------------------------------------------------------------
(* The ledger: ids *)

\* Every command that inserts, and delete; one target, one passing and one
\* failing hierarchy check.
NextIds ==
    \/ Insert("a", {41}, {<<0, 0, 0>>})
    \/ Dispatch("a", {41}, {<<1, 0, 1>>, <<0, 0, 1>>})
    \/ \E g \in Guilds, a \in Moderators, id_ \in Ids :
          InfractionDelete("a", g, a, id_)
    \/ InfractionDeleteExecute("a")
    \/ InfractionDeleteSend("a")

SpecIds == Init /\ [][NextIds]_vars

\* C6: the ids returned by the inserts of note, warn, kick and ban, in the
\* order of the inserts, are strictly increasing, whatever the guild and
\* whatever was deleted in between; no two rows share an id; and the id an
\* invocation reports is the one returned by its insert.
C6_IdsIncrease ==
    /\ \A i, j \in DOMAIN issued : i < j => issued[i] < issued[j]
    /\ \A r1, r2 \in ledger : r1.id = r2.id => r1 = r2
    /\ \A r \in ledger : \E i \in DOMAIN issued : issued[i] = r.id
    /\ \A p \in Procs : inv[p].pk # 0 => inv[p].pk = issued[Len(issued)]

C6_Witness ==
    /\ Len(issued) = 3
    /\ issued[2] \notin {r.id : r \in ledger}
    /\ \E r \in ledger : r.id = issued[3] /\ r.type = "kick" /\ r.guild_id = "g2"
    /\ \E r \in ledger : r.id = issued[1] /\ r.type = "note" /\ r.guild_id = "g1"

-----------------------------------------------------------------------------
(* The ledger: list and detail *)

TypeArgs == {{}, {"note"}, {"note", "warning"}, {"kick"}}

\* What bot.get_user resolves at the time of a query: everyone, everyone but
\* user 41, everyone but the moderator, no one.
ResolvedSets == {Users \cup Moderators, {42} \cup Moderators, Users, {}}

\* Notes and warnings for two users in two guilds, then list and detail.
NextQuery ==
    \/ Insert("a", Users, {<<0, 0, 0>>})
    \/ \E g \in Guilds, a \in Moderators, types \in TypeArgs, resolved \in ResolvedSets :
          InfractionList("a", g, a, types, resolved)
    \/ \E g \in Guilds, a \in Moderators, id_ \in Ids, resolved \in ResolvedSets :
          InfractionDetail("a", g, a, id_, resolved)
    \/ InfractionListExecute("a")
    \/ InfractionListFetchall("a")
    \/ InfractionListSend("a")
    \/ InfractionDetailExecute("a")
    \/ InfractionDetailFirst("a")
    \/ InfractionDetailSend("a")

SpecQuery == Init /\ [][NextQuery]_vars

IsList(c) == c.cmd = "infraction_list" /\ c.pc \in {"done", "raised"}

IsDetail(c) == c.cmd = "infraction_detail" /\ c.pc \in {"done", "raised"}

\* The rows a list invocation is to show: its guild's, of its types if it gave any.
Listed(c) ==
    {r \in ledger : r.guild_id = c.guild /\ (c.types = {} \/ r.type \in c.types)}

Renders(c) ==
    /\ c.pc = "done"
    /\ Len(c.embed) = Cardinality(Listed(c))
    /\ {c.embed[i].id : i \in DOMAIN c.embed} = {r.id : r \in Listed(c)}
    /\ \A i, j \in DOMAIN c.embed : i < j => c.embed[i].created <= c.embed[j].created
    /\ \A i \in DOMAIN c.embed :
          \E r \in Listed(c) :
             /\ r.id = c.embed[i].id
             /\ c.embed[i].created = r.created_on
             /\ c.embed[i].emoji = INFRACTION_TYPE_EMOJI[r.type]
    /\ Listed(c) = {} <=> c.report = "list_empty"

\* C9: an ended infraction list has sent one line per row of its guild whose
\* type is among the given ones (every row of the guild when none is given),
\* in ascending order of creation time, and the placeholder exactly when there
\* is no such row.
C9_ListRenders ==
    \A p \in Procs : IsList(inv[p]) => Renders(inv[p])

\* C9, where get_user resolves the user of every listed row: the list is as
\* C9 says.
C9_ListRendersResolved ==
    \A p \in Procs :
        (IsList(inv[p]) /\ \A r \in Listed(inv[p]) : r.user_id \in inv[p].resolved)
        => Renders(inv[p])

\* C10: an ended infraction list or detail has not failed, and where a row's
\* user (or, in detail, its moderator) does not resolve, the row is still
\* shown, with the stored id; the detail footer labels it an unknown user.
C10_UnresolvedRenders ==
    \A p \in Procs :
        /\ IsList(inv[p])
           => /\ inv[p].pc = "done"
              /\ \A r \in Listed(inv[p]) :
                    r.user_id \notin inv[p].resolved
                    => \E i \in DOMAIN inv[p].embed :
                          /\ inv[p].embed[i].id = r.id
                          /\ inv[p].embed[i].user.id = r.user_id
        /\ (IsDetail(inv[p]) /\ inv[p].report = "detail")
           => \E r \in ledger :
                 /\ r.id = inv[p].id
                 /\ inv[p].embed[1].user.id = r.user_id
                 /\ inv[p].embed[1].footer.id = r.moderator_id
                 /\ r.moderator_id \notin inv[p].resolved
                    => inv[p].embed[1].footer.label = "unknown user"

\* C10, for detail alone: it ends with a report, found or not.
C10_DetailCompletes ==
    \A p \in Procs :
        IsDetail(inv[p])
        => /\ inv[p].pc = "done"
           /\ inv[p].report = "detail"
              => \E r \in ledger :
                    /\ r.id = inv[p].id
                    /\ inv[p].embed[1].user.id = r.user_id
                    /\ inv[p].embed[1].footer.id = r.moderator_id

-----------------------------------------------------------------------------
(* purge *)

\* C7: purge id with no id and purge user with no member send the usage
\* error and end with it without calling channel.purge, and the channel's
\* messages are the same after each of their steps as before it.
C7_EmptyTargetsRejected ==
    [][\A p \in Procs :
          (inv'[p] # inv[p] /\ inv'[p].cmd \in {"purge_id", "purge_user"}
              /\ inv'[p].ids = {})
          => /\ \/ /\ Free(p) /\ inv'[p].pc = "usage"
                   /\ inv'[p].report = "none"
                \/ /\ inv[p].pc = "usage" /\ inv'[p].pc = "done"
                   /\ inv'[p].report = "usage"
             /\ ~inv'[p].called
             /\ inv'[p].total = 0
             /\ channel' = channel]_vars

C7_Witness ==
    /\ inv["a"].cmd = "purge_id"
    /\ inv["a"].ids = {}
    /\ inv["a"].report = "usage"
    /\ Len(channel) = MaxMsgs

\* C8: a purge containing X removes no message whose text does not hold X as
\* a run of the very same characters: every such message of the channel,
\* one holding X only in another case included, is in the channel afterwards.
C8_LiteralMatchOnly ==
    [][\A p \in Procs :
          (inv'[p] # inv[p] /\ inv'[p].cmd = "purge_containing")
          => \A i \in DOMAIN channel :
                ~Occurs(inv'[p].needle, channel[i].content)
                => \E j \in DOMAIN channel' : channel'[j] = channel[i]]_vars

C8_Witness ==
    /\ inv["a"].cmd = "purge_containing"
    /\ inv["a"].needle = <<"X">>
    /\ inv["a"].limit = MaxLimit
    /\ inv["a"].total = 1
    /\ Len(channel) = 1
    /\ channel[1].content = <<"x">>

-----------------------------------------------------------------------------
(* The ledger: per-user history *)

\* Notes and warnings for two users in two guilds, then the per-user history.
NextUser ==
    \/ Insert("a", Users, {<<0, 0, 0>>})
    \/ \E g \in Guilds, a \in Moderators, u \in Users : InfractionUser("a", g, a, u)
    \/ InfractionUserExecute("a")
    \/ InfractionUserFetchall("a")
    \/ InfractionUserSend("a")

SpecUser == Init /\ [][NextUser]_vars

\* The rows a per-user history is about: the user's, in the caller's guild.
OfUser(c) == {r \in ledger : r.guild_id = c.guild /\ r.user_id = c.target}

RECURSIVE SectionSizes(_)
SectionSizes(sections) ==
    IF sections = <<>> THEN 0
    ELSE Len(sections[1].entries) + SectionSizes(Tail(sections))

\* C11: an ended infraction user for a user with rows in the caller's guild
\* reports as total the number of those rows and as most recent the id of one
\* with the greatest creation time, and shows one section per type present,
\* holding exactly the rows of that type, so that the section sizes add up to
\* the total; for a user without rows it sends the 'no recorded infractions'
\* report and no section.
C11_UserHistory ==
    \A p \in Procs :
        (inv[p].cmd = "infraction_user" /\ inv[p].pc \in {"done", "raised"})
        => LET c == inv[p]
               rows == OfUser(c)
           IN  /\ c.pc = "done"
               /\ rows = {} => (c.report = "user_empty" /\ c.embed = <<>>)
               /\ rows # {}
                  => /\ c.report = "user"
                     /\ c.total = Cardinality(rows)
                     /\ \E r \in rows :
                           /\ r.id = c.recent
                           /\ \A q \in rows : q.created_on <= r.created_on
                     /\ Len(c.embed) = Cardinality({r.type : r \in rows})
                     /\ {c.embed[i].type : i \in DOMAIN c.embed} = {r.type : r \in rows}
                     /\ \A i \in DOMAIN c.embed :
                           /\ {c.embed[i].entries[k].id : k \in DOMAIN c.embed[i].entries}
                                 = {r.id : r \in {q \in rows : q.type = c.embed[i].type}}
                           /\ Len(c.embed[i].entries)
                                 = Cardinality({q \in rows : q.type = c.embed[i].type})
                     /\ SectionSizes(c.embed) = c.total

C11_Witness ==
    /\ inv["a"].cmd = "infraction_user"
    /\ inv["a"].total = 3
    /\ inv["a"].recent = 3
    /\ Len(inv["a"].embed) = 2
    /\ inv["a"].embed[1].type = "note"
    /\ Len(inv["a"].embed[1].entries) = 2
    /\ \E r \in ledger : r.id = 2 /\ r.type = "warning"

-----------------------------------------------------------------------------
(* note and warn *)

\* note and warn for one user in two guilds, under every order of the role
\* positions of the bot, the target and the invoking moderator.
NextNote == Insert("a", {41}, Ranks \X Ranks \X Ranks)

SpecNote == Init /\ [][NextNote]_vars

IsInsert(c) == c.cmd \in {"note", "warn"}

\* C12: every note or warn invocation, whatever the role positions of the
\* bot, the target and the moderator, runs without a platform action and in
\* three steps: it starts with nothing written; its insert adds to the ledger
\* exactly one row, of type note (warning for warn), with the caller's guild,
\* the target user, the invoking moderator and the given text as reason, and
\* holds that row's id; and it ends with its success report, the id and the
\* ledger as the insert left them.
C12_InsertOnly ==
    [][\A p \in Procs :
          (inv'[p] # inv[p] /\ IsInsert(inv'[p]))
          => /\ ~inv'[p].called
             /\ present' = present
             /\ platformLog' = platformLog
             /\ \/ /\ Free(p) /\ inv'[p].pc = "db"
                   /\ inv'[p].pk = 0
                   /\ inv'[p].report = "none"
                   /\ ledger' = ledger
                \/ /\ inv[p].pc = "db" /\ inv'[p].pc = "send"
                   /\ inv'[p] = [inv[p] EXCEPT !.pc = "send", !.pk = inv'[p].pk]
                   /\ inv'[p].report = "none"
                   /\ ledger \subseteq ledger'
                   /\ Cardinality(ledger') = Cardinality(ledger) + 1
                   /\ \A r \in ledger' \ ledger :
                         /\ r.type = (IF inv[p].cmd = "note" THEN "note" ELSE "warning")
                         /\ r.guild_id = inv[p].guild
                         /\ r.user_id = inv[p].target
                         /\ r.moderator_id = inv[p].actor
                         /\ r.reason = inv[p].text
                         /\ r.id = inv'[p].pk
                \/ /\ inv[p].pc = "send" /\ inv'[p].pc = "done"
                   /\ inv'[p] = Done(inv[p], IF inv[p].cmd = "note" THEN "noted"
                                             ELSE "warned")
                   /\ \E r \in ledger : r.id = inv[p].pk
                   /\ ledger' = ledger]_vars

C12_Witness ==
    /\ inv["a"].cmd = "warn"
    /\ inv["a"].report = "warned"
    /\ inv["a"].targetRank > inv["a"].actorRank
    /\ inv["a"].targetRank >= inv["a"].botRank
    /\ inv["a"].pk = 2
    /\ \E r \in ledger : r.id = 2 /\ r.type = "warning" /\ r.guild_id = "g2"
    /\ \E r \in ledger : r.id = 1 /\ r.type = "note"

-----------------------------------------------------------------------------
(* The ledger behind the permission checks *)

\* note, infraction edit, delete and detail as invoked by callers of every
\* tier: the body runs when the checks pass, else the invocation ends there.
NextGate ==
    \/ \E g \in Guilds, a \in Callers, t \in InsertTexts :
          Permitted("note", a) /\ Note("a", g, a, 41, 0, 0, 0, t)
    \/ \E g \in Guilds, a \in Callers, id_ \in Ids, t \in EditTexts :
          Permitted("infraction_edit", a) /\ InfractionEdit("a", g, a, id_, t)
    \/ \E g \in Guilds, a \in Callers, id_ \in Ids :
          Permitted("infraction_delete", a) /\ InfractionDelete("a", g, a, id_)
    \/ \E g \in Guilds, a \in Callers, id_ \in Ids :
          Permitted("infraction_detail", a)
          /\ InfractionDetail("a", g, a, id_, Users \cup Moderators)
    \/ \E g \in Guilds, a \in Callers,
          cmd \in {"note", "infraction_edit", "infraction_delete", "infraction_detail"} :
          CheckFailure("a", cmd, g, a)
    \/ NoteInsert("a")
    \/ NoteSend("a")
    \/ InfractionEditExecute("a")
    \/ InfractionEditSend("a")
    \/ InfractionDeleteExecute("a")
    \/ InfractionDeleteSend("a")
    \/ InfractionDetailExecute("a")
    \/ InfractionDetailFirst("a")
    \/ InfractionDetailSend("a")

SpecGate == Init /\ [][NextGate]_vars

\* The caller may create and view records.
CreateViewTier(a) == Permitted("note", a) /\ Permitted("infraction_detail", a)

\* The caller may edit and delete records.
AdministratorTier(a) ==
    Permitted("infraction_edit", a) /\ Permitted("infraction_delete", a)

\* C13: whoever may edit or delete records may also create and view them,
\* and not the other way round; and an infraction edit or delete invoked by a
\* caller who is not an administrator, one who may create and view records
\* included, ends before its body and leaves every ledger row as it was.
C13_AdministratorOnly ==
    /\ [](/\ \A a \in Callers : AdministratorTier(a) => CreateViewTier(a)
          /\ \E a \in Callers : CreateViewTier(a) /\ ~AdministratorTier(a))
    /\ [][\A p \in Procs :
             (inv'[p] # inv[p] /\ IsEditOrDelete(inv'[p])
                 /\ "administrator" \notin PermissionsFor(inv'[p].actor))
             => /\ ledger' = ledger
                /\ inv'[p].pc = "raised"
                /\ inv'[p].report = "none"]_vars

C13_Witness ==
    /\ inv["a"].cmd = "infraction_delete"
    /\ inv["a"].actor = 8
    /\ inv["a"].pc = "raised"
    /\ \E r \in ledger : r.moderator_id = 8 /\ r.guild_id = inv["a"].guild
    /\ \E r \in ledger : r.moderator_id = 7 /\ r.edited_on # <<>>

-----------------------------------------------------------------------------
(* The dispatcher with a store that may fail *)

\* kick and ban of two members in two guilds, with one passing and one failing
\* hierarchy check; the platform call and the insert may each raise.
NextFault ==
    \/ Dispatch("a", Users, {<<1, 0, 1>>, <<0, 0, 1>>})
    \/ KickInsertFail("a")
    \/ BanInsertFail("a")

SpecFault == Init /\ [][NextFault]_vars

Ended(c) == c.pc \in {"done", "raised"}

\* C14: an invocation that has ended, normally or in a failed platform or
\* store call, has sent a report to the invoking context.
C14_EndedReported ==
    \A p \in Procs : Ended(inv[p]) => inv[p].report # "none"

-----------------------------------------------------------------------------
(* Every command on one ledger *)

\* One message by user 41 in the channel.
InitAll ==
    /\ ledger = {}
    /\ nextId = 1
    /\ clock = 0
    /\ issued = <<>>
    /\ lastEdit = [i \in Ids |-> <<>>]
    /\ present = Guilds \X Users
    /\ platformLog = {}
    /\ channel = <<[mid |-> 1, author |-> 41, content |-> <<"x">>]>>
    /\ inv = [p \in Procs |-> Idle]

\* All thirteen commands about one member: note, warn, infraction edit and
\* delete in two guilds, the others in the first.
NextAll ==
    \/ Insert("a", {41}, {<<0, 0, 0>>})
    \/ \E a \in Moderators, rk \in {<<1, 0, 1>>, <<0, 0, 1>>} :
          \/ Kick("a", "g1", a, 41, rk[1], rk[2], rk[3], "")
          \/ Ban("a", "g1", a, 41, rk[1], rk[2], rk[3], "")
    \/ KickDeny("a")
    \/ BanDeny("a")
    \/ KickPlatform("a")
    \/ KickPlatformFail("a")
    \/ KickInsert("a")
    \/ KickSend("a")
    \/ BanPlatform("a")
    \/ BanPlatformFail("a")
    \/ BanInsert("a")
    \/ BanSend("a")
    \/ \E g \in Guilds, a \in Moderators, id_ \in Ids :
          InfractionEdit("a", g, a, id_, "geese")
    \/ \E g \in Guilds, a \in Moderators, id_ \in Ids :
          InfractionDelete("a", g, a, id_)
    \/ \E a \in Moderators, id_ \in Ids :
          InfractionDetail("a", "g1", a, id_, Users \cup Moderators)
    \/ \E a \in Moderators :
          InfractionList("a", "g1", a, {}, Users \cup Moderators)
    \/ \E a \in Moderators : InfractionUser("a", "g1", a, 41)
    \/ \E a \in Moderators : Purge("a", "g1", a, 1)
    \/ \E a \in Moderators, ids \in SUBSET {41} : PurgeId("a", "g1", a, ids)
    \/ \E a \in Moderators : PurgeContaining("a", "g1", a, 1, <<"x">>)
    \/ \E a \in Moderators, members \in SUBSET {41} : PurgeUser("a", "g1", a, 1, members)
    \/ InfractionEditExecute("a")
    \/ InfractionEditSend("a")
    \/ InfractionDeleteExecute("a")
    \/ InfractionDeleteSend("a")
    \/ InfractionDetailExecute("a")
    \/ InfractionDetailFirst("a")
    \/ InfractionDetailSend("a")
    \/ InfractionListExecute("a")
    \/ InfractionListFetchall("a")
    \/ InfractionListSend("a")
    \/ InfractionUserExecute("a")
    \/ InfractionUserFetchall("a")
    \/ InfractionUserSend("a")
    \/ PurgeRun("a")
    \/ PurgeSend("a")
    \/ PurgeIdUsage("a")
    \/ PurgeIdRun("a")
    \/ PurgeIdSend("a")
    \/ PurgeContainingRun("a")
    \/ PurgeContainingSend("a")
    \/ PurgeUserUsage("a")
    \/ PurgeUserRun("a")
    \/ PurgeUserSend("a")

SpecAll == InitAll /\ [][NextAll]_vars

\* The type of the row each inserting command writes.
TypeOf(cmd) ==
    CASE cmd = "note" -> "note"
      [] cmd = "warn" -> "warning"
      [] cmd = "kick" -> "kick"
      [] cmd = "ban" -> "ban"
      [] OTHER -> "none"

\* The step is the insert of an inserting invocation: it adds one row, that
\* invocation's, and changes no other.
AddsOne(b, c) ==
    /\ TypeOf(c.cmd) # "none"
    /\ b.pc \in {"insert", "db"} /\ c.pc = "send"
    /\ c.pk # 0
    /\ ledger \subseteq ledger'
    /\ Cardinality(ledger') = Cardinality(ledger) + 1
    /\ \A r \in ledger' \ ledger : r.id = c.pk /\ r.type = TypeOf(c.cmd)

\* The step is the update of an infraction edit: it changes fields of the row
\* the edit names, and nothing else.
EditsOne(b, c) ==
    /\ c.cmd = "infraction_edit"
    /\ b.pc = "db" /\ c.pc = "send"
    /\ c.rowcount = 1
    /\ {r.id : r \in ledger'} = {r.id : r \in ledger}
    /\ Cardinality(ledger') = Cardinality(ledger)
    /\ \A r \in ledger \ ledger' : r.id = c.id /\ r.guild_id = c.guild

\* The step is the delete of an infraction delete: it removes the row the
\* delete names, and nothing else.
DeletesOne(b, c) ==
    /\ c.cmd = "infraction_delete"
    /\ b.pc = "db" /\ c.pc = "send"
    /\ c.rowcount = 1
    /\ ledger' \subseteq ledger
    /\ Cardinality(ledger') = Cardinality(ledger) - 1
    /\ \A r \in ledger \ ledger' : r.id = c.id /\ r.guild_id = c.guild

\* C15: a step that changes the ledger is the insert of a note, warn, kick or
\* ban invocation adding that invocation's one row, or the update of an
\* infraction edit changing the one row it names, or the delete of an
\* infraction delete removing the one row it names, and the invocation then
\* reports success; and every step of a purge command, of infraction detail,
\* list or user, and every step of an invocation that ends in a denial, a
\* not-found or a usage report, leaves the ledger as it was.
C15_LedgerFrame ==
    /\ [][ /\ ledger' # ledger
              => \E p \in Procs :
                    \/ AddsOne(inv[p], inv'[p])
                    \/ EditsOne(inv[p], inv'[p])
                    \/ DeletesOne(inv[p], inv'[p])
           /\ \A p \in Procs :
                 (inv'[p] # inv[p]
                     /\ \/ inv'[p].cmd \in {"purge", "purge_id", "purge_containing",
                                             "purge_user", "infraction_detail",
                                             "infraction_list", "infraction_user"}
                        \/ inv'[p].report \in {"denied", "edit_notfound",
                                                "delete_notfound", "detail_notfound",
                                                "usage"}
                        \/ inv'[p].pc \in {"deny", "usage"}
                        \/ IsEditOrDelete(inv'[p]) /\ inv'[p].pc = "send"
                              /\ inv'[p].rowcount = 0)
                 => ledger' = ledger
           /\ \A p \in Procs :
                 (inv[p].pc = "send" /\ inv'[p] # inv[p])
                 => /\ ledger' = ledger
                    /\ inv'[p].pc = "done"
                    /\ IsEditOrDelete(inv[p])
                       => (inv[p].rowcount = 0
                              <=> inv'[p].report \in {"edit_notfound",
                                                      "delete_notfound"})]_vars

C15_Witness ==
    /\ inv["a"].cmd = "purge_containing"
    /\ inv["a"].report = "purged"
    /\ inv["a"].total = 1
    /\ channel = <<>>
    /\ Cardinality(ledger) = 2
    /\ \E r \in ledger : r.type = "kick" /\ r.edited_on # <<>>
    /\ \E r \in ledger : r.type = "note"
    /\ Len(issued) = 2

-----------------------------------------------------------------------------
(* The ledger: what an edit leaves alone *)

\* C16: the update of an infraction edit that affects a row replaces the one
\* row with the given id in the caller's guild by a row that differs from it
\* in the reason and the edit time only, and leaves every other row in the
\* store as it was; the invocation then reports success without touching the
\* store again; and no step of any command changes the creation time of a row.
C16_EditFrame ==
    [][/\ \A p \in Procs :
             (inv[p].cmd = "infraction_edit" /\ inv[p].pc = "db"
                 /\ inv'[p].pc = "send" /\ inv'[p].rowcount # 0)
             => /\ inv'[p].rowcount = 1
                /\ \E r \in ledger, e \in ledger' :
                      /\ r.id = inv[p].id /\ r.guild_id = inv[p].guild
                      /\ e.id = r.id /\ e.type = r.type /\ e.guild_id = r.guild_id
                      /\ e.user_id = r.user_id /\ e.moderator_id = r.moderator_id
                      /\ e.created_on = r.created_on
                      /\ e.reason = inv[p].text
                      /\ e.edited_on = <<clock>>
                      /\ ledger' \ {e} = ledger \ {r}
       /\ \A p \in Procs :
             (inv[p].cmd = "infraction_edit" /\ inv[p].pc = "send"
                 /\ inv'[p] # inv[p] /\ inv[p].rowcount # 0)
             => /\ inv'[p].pc = "done" /\ inv'[p].report = "edited"
                /\ ledger' = ledger
       /\ \A r \in ledger, e \in ledger' :
             e.id = r.id => e.created_on = r.created_on]_vars

C16_Witness ==
    /\ inv["a"].cmd = "infraction_edit"
    /\ inv["a"].report = "edited"
    /\ inv["a"].id = 2
    /\ \E r \in ledger :
          r.id = 2 /\ r.created_on = 1 /\ r.edited_on = <<2>> /\ r.reason = "geese"
    /\ \E r \in ledger :
          r.id = 1 /\ r.guild_id = inv["a"].guild /\ r.edited_on = <<>>
                   /\ r.reason = "ducks"

-----------------------------------------------------------------------------
(* The ledger: delete *)

\* The id was given to a row that is no longer in the ledger.
Deleted(id_) ==
    /\ \E i \in DOMAIN issued : issued[i] = id_
    /\ ~\E r \in ledger : r.id = id_

\* C17: the statement of an infraction delete removes the row with the given
\* id in the caller's guild, that row only, and the invocation then reports
\* success; where there is no such row it removes nothing and the invocation
\* reports not-found. A deleted id stays absent, so that the statement of
\* every later delete, edit or detail of it finds no row and leaves the ledger
\* as it was, and that invocation reports not-found.
C17_DeleteOnce ==
    /\ [][ /\ \A p \in Procs :
                 (inv[p].cmd = "infraction_delete" /\ inv'[p] # inv[p])
                 => LET hit == {r \in ledger :
                                   r.id = inv[p].id /\ r.guild_id = inv[p].guild}
                    IN  \/ /\ inv[p].pc = "db" /\ inv'[p].pc = "send"
                           /\ Cardinality(hit) <= 1
                           /\ ledger' = ledger \ hit
                           /\ inv'[p].rowcount = Cardinality(hit)
                        \/ /\ inv[p].pc = "send" /\ inv'[p].pc = "done"
                           /\ ledger' = ledger
                           /\ inv'[p].report = (IF inv[p].rowcount = 0
                                                THEN "delete_notfound"
                                                ELSE "deleted")
                        \/ /\ inv[p].pc = "done" /\ ledger' = ledger
           /\ \A id_ \in Ids : Deleted(id_) => Deleted(id_)'
           /\ \A p \in Procs :
                 (inv[p].pc = "db" /\ inv'[p] # inv[p] /\ Deleted(inv[p].id)
                     /\ inv[p].cmd \in {"infraction_delete", "infraction_edit",
                                         "infraction_detail"})
                 => /\ ledger' = ledger
                    /\ inv'[p].rowcount = 0
                    /\ inv'[p].result = <<>>]_vars
    /\ [](\A p \in Procs :
             /\ (inv[p].pc = "done" /\ Deleted(inv[p].id)
                    /\ inv[p].cmd \in {"infraction_edit", "infraction_detail"})
                => inv[p].report \in {"edit_notfound", "detail_notfound"}
             /\ (inv[p].pc = "done" /\ inv[p].cmd = "infraction_delete")
                => /\ (inv[p].report = "delete_notfound" <=> inv[p].rowcount = 0)
                   /\ ~\E r \in ledger :
                          r.id = inv[p].id /\ r.guild_id = inv[p].guild)

C17_Witness ==
    /\ inv["a"].cmd = "infraction_delete"
    /\ inv["a"].report = "delete_notfound"
    /\ inv["a"].id = 1
    /\ Deleted(1)
    /\ \E r \in ledger : r.id = 2 /\ r.guild_id = inv["a"].guild
    /\ \E r \in ledger : r.id = 3

-----------------------------------------------------------------------------
(* purge: the window, the predicate and the count *)

IsPurge(c) == c.cmd \in {"purge", "purge_id", "purge_containing", "purge_user"}

\* The most messages the invocation may look at.
Ceiling(c) == IF c.cmd = "purge_id" THEN PurgeIdLimit ELSE c.limit

\* The invocation's mode selects the message.
Selects(c, m) ==
    CASE c.cmd = "purge" -> TRUE
      [] c.cmd = "purge_id" -> m.author \in c.ids
      [] c.cmd = "purge_user" -> m.author \in c.ids
      [] c.cmd = "purge_containing" -> Occurs(c.needle, m.content)

\* C18: the deletion step of a purge of any mode removes exactly those of the
\* newest `ceiling` messages of the channel that its mode selects (all; author
\* id among the given ids; author among the given members; text holding the
\* given contents), where the ceiling is the given limit or amount (100 by
\* default for the plain purge) and 1000 for purge id; older messages stay,
\* the remaining ones keep their order, and the number removed is at most the
\* ceiling. The report that follows carries that number as its total, and no
\* other step of a purge changes the channel.
C18_WindowAndCount ==
    [][\A p \in Procs :
          ((inv'[p] # inv[p] \/ channel' # channel) /\ IsPurge(inv'[p]))
          => LET c == inv'[p]
                 window == {i \in DOMAIN channel : i <= Ceiling(c)}
                 gone == {i \in window : Selects(c, channel[i])}
             IN  \/ /\ inv[p].pc = "purge" /\ c.pc = "send"
                    /\ channel' = SelectSeq(channel, LAMBDA m : m.mid \notin
                                                 {channel[i].mid : i \in gone})
                    /\ \A i \in DOMAIN channel :
                          i > Ceiling(c)
                          => \E j \in DOMAIN channel' : channel'[j] = channel[i]
                    /\ c.rowcount = Cardinality(gone)
                    /\ c.rowcount = Len(channel) - Len(channel')
                    /\ c.rowcount <= Ceiling(c)
                 \/ /\ inv[p].pc = "send" /\ c.pc = "done"
                    /\ c.report = "purged"
                    /\ c.total = inv[p].rowcount
                    /\ channel' = channel
                 \/ /\ Free(p) /\ c.pc = "purge" /\ channel' = channel
                 \/ /\ Free(p) /\ c.pc = "usage" /\ channel' = channel
                 \/ /\ inv[p].pc = "usage" /\ c.pc = "done"
                    /\ c.report = "usage" /\ c.total = 0
                    /\ channel' = channel]_vars

C18_Witness ==
    /\ inv["a"].cmd = "purge_user"
    /\ inv["a"].report = "purged"
    /\ inv["a"].ids = {41}
    /\ inv["a"].limit = 2
    /\ inv["a"].total = 1
    /\ Len(channel) = 2
    /\ channel[1].author = 42 /\ channel[1].mid = 2
    /\ channel[2].author = 41 /\ channel[2].mid = 3

-----------------------------------------------------------------------------
(* Two invocations at once *)

\* kick and ban of the members of guild g1 in two invocation slots; the
\* steps of the two interleave at their awaits.
NextRace ==
    \E p \in Procs :
        \/ \E a \in Moderators, u \in Users, rk \in {<<1, 0, 1>>, <<0, 0, 1>>} :
              \/ Kick(p, "g1", a, u, rk[1], rk[2], rk[3], "")
              \/ Ban(p, "g1", a, u, rk[1], rk[2], rk[3], "")
        \/ KickDeny(p)
        \/ BanDeny(p)
        \/ KickPlatform(p)
        \/ KickPlatformFail(p)
        \/ KickInsert(p)
        \/ KickSend(p)
        \/ BanPlatform(p)
        \/ BanPlatformFail(p)
        \/ BanInsert(p)
        \/ BanSend(p)

SpecRace == Init /\ [][NextRace]_vars

\* C19: with two kick/ban invocations against the same member in flight at
\* once, an invocation holds an id only after its own platform action, two
\* invocations that hold ids hold different ones, each the id of a row of its
\* own type for that guild and member; an invocation whose platform call
\* raised holds none, and its failing step adds no row; and a kick's platform
\* action succeeds only while the member is still there.
C19_NoLock ==
    /\ [](/\ \A p \in Procs :
               IsDispatch(inv[p])
               => /\ inv[p].pc = "raised" => inv[p].pk = 0
                  /\ inv[p].pk # 0
                     => /\ PlatformDid(inv[p])
                        /\ \E r \in ledger :
                              /\ r.id = inv[p].pk
                              /\ r.type = inv[p].cmd
                              /\ r.guild_id = inv[p].guild
                              /\ r.user_id = inv[p].target
          /\ \A p, q \in Procs :
               (p # q /\ inv[p].pk # 0 /\ inv[q].pk # 0) => inv[p].pk # inv[q].pk)
    /\ [][\A p \in Procs :
             /\ (inv[p].pc = "platform" /\ inv'[p].pc = "raised")
                => (ledger' = ledger /\ inv'[p].pk = 0)
             /\ (inv[p].cmd = "kick" /\ inv[p].pc = "platform"
                    /\ inv'[p].pc = "insert")
                => <<inv[p].guild, inv[p].target>> \in present]_vars

\* Both passed the check while the member was there; the kick removed the
\* member, the ban went through after it, and each inserted its own row.
C19_Witness ==
    /\ inv["a"].cmd = "kick" /\ inv["a"].report = "kicked"
    /\ inv["b"].cmd = "ban" /\ inv["b"].report = "banned"
    /\ inv["a"].target = inv["b"].target /\ inv["a"].guild = inv["b"].guild
    /\ inv["a"].pk # inv["b"].pk
    /\ \E r1, r2 \in ledger :
          /\ r1.id = inv["a"].pk /\ r2.id = inv["b"].pk
          /\ r1.guild_id = r2.guild_id /\ r1.user_id = r2.user_id
    /\ Cardinality(ledger) = 2

-----------------------------------------------------------------------------
(* The dispatcher: a failed insert after the platform action *)

\* C20: between its platform action and its insert a kick or ban has the
\* member removed on the platform, no id and no report; when the insert then
\* raises, the failing step leaves the platform and the ledger as they are
\* (the member stays removed, no row is added) and the invocation ends
\* without an id and without a report.
C20_NoRollback ==
    /\ [](\A p \in Procs :
              (IsDispatch(inv[p]) /\ inv[p].pc = "insert")
              => /\ PlatformDid(inv[p])
                 /\ <<inv[p].guild, inv[p].target>> \notin present
                 /\ inv[p].pk = 0
                 /\ inv[p].report = "none")
    /\ [][\A p \in Procs :
             (IsDispatch(inv[p]) /\ inv[p].pc = "insert" /\ inv'[p].pc = "raised")
             => /\ ledger' = ledger
                /\ nextId' = nextId
                /\ present' = present
                /\ platformLog' = platformLog
                /\ <<inv'[p].guild, inv'[p].target>> \notin present'
                /\ [kind |-> inv'[p].cmd, guild |-> inv'[p].guild,
                    user |-> inv'[p].target] \in platformLog'
                /\ inv'[p].pk = 0
                /\ inv'[p].report = "none"]_vars

C20_Witness ==
    /\ inv["a"].cmd = "kick"
    /\ inv["a"].pc = "raised"
    /\ <<inv["a"].guild, inv["a"].target>> \notin present
    /\ [kind |-> "kick", guild |-> inv["a"].guild, user |-> inv["a"].target]
          \in platformLog
    /\ [kind |-> "ban", guild |-> inv["a"].guild, user |-> inv["a"].target]
          \notin platformLog
    /\ ~\E r \in ledger : r.guild_id = inv["a"].guild /\ r.user_id = inv["a"].target
    /\ inv["a"].pk = 0
    /\ \E r \in ledger : r.type = "ban"

====
